---- MODULE Spec2Model ----
(***************************************************************************)
(* A model of rereplay (packages/rereplay/src/index.ts): the PersistentMap *)
(* TTL store with its JSON backing files, and Replayer.fetch, the          *)
(* record/replay orchestrator, with requestToKey, serializeResponse and    *)
(* deserializeResponse as operators.                                       *)
(***************************************************************************)
EXTENDS Integers, Sequences, FiniteSets, TLC

\* ------------------------------------------------------------------ bounds

\* The clock runs over 0..MaxTime (Date.now(), in units of one tick).
MaxTime == 2

\* The store's staleAfter, in ticks (the constructor's parameter).
StaleAfter == 1

\* The real network function is invoked at most this often.
MaxNetCalls == 2

\* requestToKey is called directly at most this often.
MaxProbes == 2

\* A streamed response body has at most this many chunks.
MaxChunks == 3

\* --------------------------------------------------------------- the inputs

\* Concurrent callers of the intercepted fetch.
Calls == {"c1", "c2"}

\* Names a backing file is derived from: `.${name}.rereplay.json`.  The first
\* is setup's default name, the other a scope given to setCacheFile.
DefaultName == "rereplay"

Scopes == {DefaultName, "scoped-cache"}

\* A request is (input, init): input the URL string, init.headers a plain
\* object, given as the list of its own properties in insertion order, and
\* init.body a string (absent: the empty one).
Hdr(n, v) == <<n, v>>

\* A body string, as the pieces the boundary pattern /--+[a-zA-Z0-9]+/g and
\* trim() tell apart: a match of the pattern ("dashes"), white space ("ws"),
\* and any other text.
Txt(t) == [kind |-> "text", text |-> t]

Dashes(t) == [kind |-> "dashes", text |-> t]

Ws == [kind |-> "ws", text |-> ""]

Requests ==
  { [url |-> "https://example.test/joke", method |-> "",
     headers |-> <<Hdr("accept", "text/plain")>>, body |-> <<>>],
    [url |-> "https://example.test/joke", method |-> "",
     headers |-> <<Hdr("accept", "text/plain"), Hdr("authorization", "token-1")>>,
     body |-> <<>>],
    [url |-> "https://example.test/upload", method |-> "POST",
     headers |-> <<Hdr("accept", "text/plain")>>, body |-> <<Txt("payload")>>],
    [url |-> "https://example.test/upload", method |-> "POST",
     headers |-> <<Hdr("accept", "text/plain")>>,
     body |-> <<Txt("[object Object]")>>] }

\* A multipart boundary token, as the boundary pattern sees it: `word` is the
\* token's longest prefix of letters and digits, which a delimiter line's match
\* of /--+[a-zA-Z0-9]+/ ends with, and `tail` the rest of the token ("" when
\* the token is letters and digits only).  contentType is the content-type
\* value that announces the token.
Boundaries ==
  { [word |-> "b1", tail |-> "", contentType |-> "multipart/form-data; boundary=b1"],
    [word |-> "b2", tail |-> "", contentType |-> "multipart/form-data; boundary=b2"],
    [word |-> "formdata", tail |-> "-undici-1",
     contentType |-> "multipart/form-data; boundary=formdata-undici-1"],
    [word |-> "formdata", tail |-> "-undici-2",
     contentType |-> "multipart/form-data; boundary=formdata-undici-2"] }

\* What is left of a delimiter line's token after the pattern's match.
TailPieces(b) == IF b.tail = "" THEN <<>> ELSE <<Txt(b.tail)>>

\* The text of a multipart body with one part: the delimiter line "--" token,
\* the part, and the closing delimiter "--" token "--", lines ending in CRLF.
MultipartBody(b, part) ==
  <<Dashes(b.word)>> \o TailPieces(b) \o <<Ws, Txt(part), Ws>>
    \o <<Dashes(b.word)>> \o TailPieces(b) \o <<Txt("--"), Ws>>

\* The parts the multipart requests carry.
Parts == {"name=a;value=1", "name=a;value=2"}

\* The spellings of the content-type property on init.headers.
ContentTypeNames == {"content-type", "Content-Type"}

\* A POST of a multipart form whose body is already a string.
MultipartRequest(b, name, part) ==
  [url |-> "https://example.test/upload", method |-> "POST",
   headers |-> <<Hdr(name, b.contentType)>>, body |-> MultipartBody(b, part)]

\* The properties a test puts on init.headers.
HeaderPool ==
  { Hdr("accept", "text/plain"), Hdr("x-trace", "1"),
    Hdr("authorization", "token-1"), Hdr("authorization", "token-2"),
    Hdr("Authorization", "token-1"), Hdr("Authorization", "token-2") }

\* init.headers objects of at most two properties.
HeaderLists ==
  {<<>>} \cup {<<h>> : h \in HeaderPool}
         \cup {hs \in HeaderPool \X HeaderPool : hs[1][1] # hs[2][1]}

\* The requests whose fingerprint is taken directly, by
\* `replayer.requestToKey(input, init)`.
KeyRequests ==
  {[url |-> "https://example.test/joke", method |-> "", headers |-> hs, body |-> <<>>] :
      hs \in HeaderLists}
  \cup {MultipartRequest(b, n, p) : b \in Boundaries, n \in ContentTypeNames, p \in Parts}
  \cup Requests

\* ------------------------------------------------------- Replayer.requestToKey

RECURSIVE WithoutHeader(_, _)
\* `delete headers[name]` on the plain object.
WithoutHeader(hs, name) ==
  IF hs = <<>> THEN <<>>
  ELSE IF Head(hs)[1] = name THEN WithoutHeader(Tail(hs), name)
  ELSE <<Head(hs)>> \o WithoutHeader(Tail(hs), name)

RECURSIVE HeaderValue(_, _)
\* headers[name]: the value of the own property, "" standing for undefined.
HeaderValue(hs, name) ==
  IF hs = <<>> THEN ""
  ELSE IF Head(hs)[1] = name THEN Head(hs)[2]
  ELSE HeaderValue(Tail(hs), name)

\* `headers[name] = v` on a plain object that has the property: the value is
\* replaced where the property stands.
WithHeader(hs, name, v) ==
  [i \in 1..Len(hs) |-> IF hs[i][1] = name THEN Hdr(name, v) ELSE hs[i]]

\* init?.method || "GET"
MethodOf(r) == IF r.method = "" THEN "GET" ELSE r.method

\* contentType?.includes("multipart/form-data"), over the content types the
\* requests carry.
IncludesMultipart(contentType) ==
  contentType \in {"multipart/form-data"} \cup {b.contentType : b \in Boundaries}

\* bodyString && contentType?.includes("multipart/form-data")
IsMultipart(r) ==
  r.body # <<>> /\ IncludesMultipart(HeaderValue(r.headers, "content-type"))

RECURSIVE TrimStart(_)
TrimStart(b) ==
  IF b = <<>> THEN <<>>
  ELSE IF Head(b).kind = "ws" THEN TrimStart(Tail(b))
  ELSE b

RECURSIVE TrimEnd(_)
TrimEnd(b) ==
  IF b = <<>> THEN <<>>
  ELSE IF b[Len(b)].kind = "ws" THEN TrimEnd(SubSeq(b, 1, Len(b) - 1))
  ELSE b

NotDashes(piece) == piece.kind # "dashes"

\* bodyString.replace(/--+[a-zA-Z0-9]+/g, "").trim()
StripBoundaries(b) == TrimEnd(TrimStart(SelectSeq(b, NotDashes)))

\* The body string that is hashed.
BodyString(r) == IF IsMultipart(r) THEN StripBoundaries(r.body) ELSE r.body

\* The headers as requestToKey leaves them: content-type is overwritten for a
\* multipart body, and `delete headers.authorization` runs when the property
\* is set and truthy.
CleanHeaders(r) ==
  LET hs == IF IsMultipart(r)
            THEN WithHeader(r.headers, "content-type", "multipart/form-data")
            ELSE r.headers
  IN IF HeaderValue(hs, "authorization") # ""
     THEN WithoutHeader(hs, "authorization")
     ELSE hs

\* `${url}|${method}|${JSON.stringify(headers)}|${bodyString}`
DataToHash(r) == <<r.url, MethodOf(r), CleanHeaders(r), BodyString(r)>>

\* IncludesObjectLabel, as if the canonical string were never looked at.
IncludesObjectLabel_Never(r) == FALSE

\* dataToHash.includes("[object ")
IncludesObjectLabel(r) ==
  \/ \E i \in 1..Len(BodyString(r)) : BodyString(r)[i].text = "[object Object]"
  \/ \E i \in 1..Len(CleanHeaders(r)) : CleanHeaders(r)[i][2] = "[object Object]"

\* createHash("sha256").update(s).digest("base64").slice(0, 20): the digest of
\* a canonical string is a value of its own, distinct for distinct strings.
Sha256Base64(s) == <<"sha256", s>>

\* The key of no request (requestToKey threw, or no key was computed).
NoKey == <<>>

\* Replayer.requestToKey(input, init): whether it returned (it throws on a
\* canonical string that holds an object label), its { key, requestString },
\* and init as its edits of init.headers leave it.
RequestToKey(r) ==
  [ok |-> ~IncludesObjectLabel(r),
   key |-> IF IncludesObjectLabel(r) THEN NoKey ELSE Sha256Base64(DataToHash(r)),
   requestString |-> IF IncludesObjectLabel(r) THEN <<>> ELSE DataToHash(r),
   init |-> [r EXCEPT !.headers = CleanHeaders(r)]]

\* requestToKey over the requests the callers make.
Fingerprint == [r \in Requests |-> RequestToKey(r)]

Keys == {Fingerprint[r].key : r \in {q \in Requests : Fingerprint[q].ok}}

\* ------------------------------------------------------------ responses

\* A Response, as the caller can observe it.  bodyKind tells what the body is:
\* "text" (body is its text), "blob" (body names its bytes), "stream" (chunks
\* are the Uint8Arrays its reader yields, in order, each a sequence of bytes)
\* or "none" (response.body is null).  `url` is the URL the response was
\* fetched from; a Response made by `new Response(...)` has "".
NoResponse ==
  [status |-> 0, statusText |-> "", headers |-> <<>>, body |-> "", chunks |-> <<>>,
   bodyKind |-> "none", url |-> ""]

\* What the real network function answers to a request, when it resolves.
NetworkResponses(r) ==
  { [status |-> 200, statusText |-> "OK",
     headers |-> <<Hdr("content-type", "text/plain")>>, body |-> "X",
     chunks |-> <<>>, bodyKind |-> "text", url |-> r.url],
    [status |-> 200, statusText |-> "OK",
     headers |-> <<Hdr("content-type", "application/json")>>, body |-> "{\"joke\":1}",
     chunks |-> <<>>, bodyKind |-> "text", url |-> r.url] }

\* In a serialized body, the "," between two bytes of a chunk and the
\* CHUNK_SPLITTER between two chunks; every other element is a byte, written
\* in decimal.
Comma == -1

Splitter == -2

\* A string kept in the store, by what JSON.parse makes of it: a
\* SerializedResponse, or text that does not parse; "undefined" is the absent
\* value that get returns.  The `body` string of a SerializedResponse is in
\* `body` for bodyType "text" and "json", in `stream` (the bytes and the
\* separators it is written with) for "stream", and in `blob` (the
\* {type, data} of blobToBase64) for "file".
NoBlob == [type |-> "", data |-> <<>>]

Undefined ==
  [tag |-> "undefined", status |-> 0, statusText |-> "", headers |-> <<>>,
   body |-> "", bodyType |-> "", fileType |-> "", stream |-> <<>>, blob |-> NoBlob]

Malformed ==
  [tag |-> "malformed", status |-> 0, statusText |-> "", headers |-> <<>>,
   body |-> "", bodyType |-> "", fileType |-> "", stream |-> <<>>, blob |-> NoBlob]

\* type.includes(...), over the content types the responses carry.
IncludesEventStream(type) == type \in {"text/event-stream"}

IncludesJson(type) == type \in {"application/json"}

IncludesTextPlain(type) == type \in {"text/plain", "text/plain;charset=UTF-8"}

RECURSIVE ChunkToString(_)
\* Uint8Array.prototype.toString(): the bytes in decimal, joined by ",".
ChunkToString(chunk) ==
  IF chunk = <<>> THEN <<>>
  ELSE IF Len(chunk) = 1 THEN chunk
  ELSE <<Head(chunk), Comma>> \o ChunkToString(Tail(chunk))

RECURSIVE JoinChunks(_)
\* chunks.join(CHUNK_SPLITTER), of the chunks' strings.
JoinChunks(chunks) ==
  IF chunks = <<>> THEN <<>>
  ELSE IF Len(chunks) = 1 THEN ChunkToString(Head(chunks))
  ELSE ChunkToString(Head(chunks)) \o <<Splitter>> \o JoinChunks(Tail(chunks))

RECURSIVE SplitOn(_, _)
\* String.prototype.split(separator): the pieces between the separators, the
\* empty ones too; the empty string gives one empty piece.
SplitOn(str, separator) ==
  IF \A i \in 1..Len(str) : str[i] # separator THEN <<str>>
  ELSE LET first == CHOOSE i \in 1..Len(str) :
                      str[i] = separator /\ \A j \in 1..(i - 1) : str[j] # separator
       IN <<SubSeq(str, 1, first - 1)>> \o SplitOn(SubSeq(str, first + 1, Len(str)), separator)

\* Number(piece), piece a byte in decimal or the empty string: Number("") is 0.
ToNumber(piece) == IF piece = <<>> THEN 0 ELSE piece[1]

\* new Uint8Array(chunk.split(",").map(Number))
ParseChunk(str) ==
  LET pieces == SplitOn(str, Comma)
  IN [i \in 1..Len(pieces) |-> ToNumber(pieces[i])]

\* serialized.body.split(CHUNK_SPLITTER).map(...)
ParseChunks(str) ==
  LET pieces == SplitOn(str, Splitter)
  IN [i \in 1..Len(pieces) |-> ParseChunk(pieces[i])]

\* Buffer.from(buffer).toString("base64") and Buffer.from(data, "base64").
ToBase64(bytes) == <<"base64", bytes>>

FromBase64(data) == data[2]

\* Replayer.serializeResponse.  A response whose content-type includes
\* text/event-stream is read chunk by chunk (response.body is a stream for
\* every response given here).  Of any other, the body is read once by
\* response.blob(): a type that is neither JSON nor plain text makes it a
\* file, kept as blobToBase64 writes it; the json and the text branch call
\* response.text() on the used body, which rejects, and the catch block
\* stores the clone's text with bodyType "text".
SerializeResponse(resp) ==
  LET type == HeaderValue(resp.headers, "content-type")
      base == [tag |-> "serialized", status |-> resp.status,
               statusText |-> resp.statusText, headers |-> resp.headers,
               body |-> "", bodyType |-> "text", fileType |-> "", stream |-> <<>>,
               blob |-> NoBlob]
  IN IF IncludesEventStream(type)
     THEN [base EXCEPT !.bodyType = "stream", !.stream = JoinChunks(resp.chunks)]
     ELSE IF IncludesJson(type) \/ IncludesTextPlain(type)
     THEN [base EXCEPT !.body = resp.body]
     ELSE [base EXCEPT !.bodyType = "file", !.fileType = type,
                       !.blob = [type |-> type, data |-> ToBase64(resp.body)]]

\* Replayer.deserializeResponse: JSON.parse throws on undefined and on text
\* that is no JSON; otherwise `new Response(body, {status, statusText, headers})`,
\* body a stream of the parsed chunks, the decoded Blob, the text, or null when
\* serialized.body is falsy.
DeserializeResponse(s) ==
  IF s.tag # "serialized"
  THEN [kind |-> "error", error |-> "SyntaxError", response |-> NoResponse]
  ELSE LET base == [status |-> s.status, statusText |-> s.statusText,
                    headers |-> s.headers, body |-> "", chunks |-> <<>>,
                    bodyKind |-> "none", url |-> ""]
       IN [kind |-> "response", error |-> "",
           response |->
             IF s.bodyType = "stream" /\ s.stream # <<>>
             THEN [base EXCEPT !.bodyKind = "stream", !.chunks = ParseChunks(s.stream)]
             ELSE IF s.bodyType = "file" /\ s.blob # NoBlob
             THEN [base EXCEPT !.bodyKind = "blob", !.body = FromBase64(s.blob.data)]
             ELSE IF s.body # ""
             THEN [base EXCEPT !.bodyKind = "text", !.body = s.body]
             ELSE base]

NoResult == [kind |-> "none", error |-> "", response |-> NoResponse]

Returned(resp) == [kind |-> "response", error |-> "", response |-> resp]

Thrown(e) == [kind |-> "error", error |-> e, response |-> NoResponse]

\* The strings a caller of the store may set directly.
DirectValues ==
  { SerializeResponse([status |-> 200, statusText |-> "OK",
                       headers |-> <<Hdr("content-type", "text/plain")>>,
                       body |-> "Yo", chunks |-> <<>>, bodyKind |-> "text",
                       url |-> ""]),
    Malformed }

\* ------------------------------------------------------------ PersistentMap

\* An entry of the in-memory map: { value, createdAt, metadata }.  createdAt
\* is a Date when set() made it (isDate) and the ISO string of that date when
\* it came out of JSON.parse.  metadata is {} (<<>>) or { requestString }.
NoEntry == [present |-> FALSE, value |-> Undefined, createdAt |-> 0, isDate |-> FALSE,
            metadata |-> <<>>]

Entry(v, t, md) == [present |-> TRUE, value |-> v, createdAt |-> t, isDate |-> TRUE,
                    metadata |-> md]

EmptyMap == [k \in Keys |-> NoEntry]

\* JSON.stringify of an entry and JSON.parse of the text: a Date is written
\* by Date.prototype.toJSON as its ISO string, and is a string when read back.
ToJSON(e) == [e EXCEPT !.isDate = FALSE]

\* A backing file: missing, text that does not parse, or the JSON array of
\* [key, entry] pairs that save() wrote.
MissingFile == [state |-> "missing", entries |-> EmptyMap]

CorruptFile == [state |-> "corrupt", entries |-> EmptyMap]

ValidFile(m) == [state |-> "valid", entries |-> [k \in Keys |-> ToJSON(m[k])]]

\* `createdAt < staleAfter`, staleAfter a Date: a Date compares by its time
\* value; an ISO string is converted by ToNumber, which gives NaN, and every
\* comparison with NaN is false.
CreatedBefore(e, bound) == e.isDate /\ e.createdAt < bound

\* ------------------------------------------------------------------ state

VARIABLES
  now,        \* Date.now()
  online,     \* process.env.REREPLAY_ONLINE is set
  filePath,   \* rereplayCache.filePath, by the name it is derived from
  map,        \* rereplayCache.map
  files,      \* the files in cacheDir, by name
  calls,      \* each caller's position in Replayer.fetch, with its locals
  netCalls,   \* how often originalFetch (the real network function) was invoked
  lastOp,     \* history: the operation that made the last step, with what it returned
  globalFetch,    \* globalThis.fetch: the function a call of fetch enters
  originalFetch,  \* the module's originalFetch
  probes,     \* history: the direct calls of requestToKey made so far, in order
  lostWrites  \* history: the first write made under another scope than the
              \* one the intercept found no entry in (empty before it)

vars == <<now, online, filePath, map, files, calls, netCalls, lastOp,
          globalFetch, originalFetch, probes, lostWrites>>

\* The init of no request.
NoInit == [url |-> "", method |-> "", headers |-> <<>>, body |-> <<>>]

\* A step's label: the operation, the caller (or "none"), the key it was about,
\* the value returned and the boolean returned; `input` is the request that a
\* call of fetch was given, `response` the response that serializeResponse was
\* given.
Op(op, c, k, ret, flag) ==
  [op |-> op, call |-> c, key |-> k, ret |-> ret, flag |-> flag, file |-> "",
   result |-> NoResult, input |-> NoInit,
   response |-> NoResponse]

\* The label of a step that loads: the operation and what the file was.
LoadOp(op, state) ==
  [op |-> op, call |-> "none", key |-> NoKey, ret |-> Undefined, flag |-> FALSE,
   file |-> state, result |-> NoResult, input |-> NoInit,
   response |-> NoResponse]

\* The label of a step in which Replayer.fetch settles: how it left (flag: the
\* bypass signal was set when the call began) and what the caller gets.
FetchOp(op, c, k, flag, res) ==
  [op |-> op, call |-> c, key |-> k, ret |-> Undefined, flag |-> flag, file |-> "",
   result |-> res, input |-> NoInit,
   response |-> NoResponse]

\* A caller outside Replayer.fetch.
IdleCall == [pc |-> "idle", init |-> NoInit, key |-> NoKey, requestString |-> <<>>,
             serializedResponse |-> Undefined, scope |-> ""]

\* PersistentMap.save: the whole map, written over the file at filePath.
Save(m, fs, path) == [fs EXCEPT ![path] = ValidFile(m)]

\* Load, as if the file were never read.
Load_IgnoresFile(m, fs, path, t) == [map |-> m, files |-> fs]

\* PersistentMap.load at time t, on the map m and the files fs: the map and the
\* files it leaves.  A file that parses replaces the map, and each entry older
\* than staleAfter is deleted (delete saves); a read or a parse that throws
\* leaves this.map as it was, and the file, when it exists, is unlinked.
Load(m, fs, path, t) ==
  IF fs[path].state = "valid"
  THEN LET parsed == fs[path].entries
           stale == {k \in Keys : parsed[k].present
                                   /\ CreatedBefore(parsed[k], t - StaleAfter)}
           kept == [k \in Keys |-> IF k \in stale THEN NoEntry ELSE parsed[k]]
       IN [map |-> kept,
           files |-> IF stale = {} THEN fs ELSE Save(kept, fs, path)]
  ELSE IF fs[path].state = "corrupt"
  THEN [map |-> m, files |-> [fs EXCEPT ![path] = MissingFile]]
  ELSE [map |-> m, files |-> fs]

\* Has, as if the presence check never found the key.
Has_Never(m, k) == FALSE

\* PersistentMap.has
Has(m, k) == m[k].present

\* PersistentMap.get: the value returned, and the map it leaves (an expired
\* entry is removed by this.map.delete, without a save).
GetValue(m, k, t) ==
  IF m[k].present /\ ~CreatedBefore(m[k], t - StaleAfter) THEN m[k].value ELSE Undefined

GetMap(m, k, t) ==
  IF m[k].present /\ CreatedBefore(m[k], t - StaleAfter)
  THEN [m EXCEPT ![k] = NoEntry]
  ELSE m

\* PersistentMap.set: the map it leaves (it then saves).
SetMap(m, k, v, md, t) == [m EXCEPT ![k] = Entry(v, t, md)]

\* The functions globalThis.fetch and originalFetch can be: the runtime's own
\* fetch (the real network function), the fetch of a configured replayer, named
\* by its class, or undefined.
NativeFetch == "native"

UndefinedFetch == "undefined"

\* The replayers a test configures: the default one and the one of the
\* "custom replayer" test, whose fetch is overridden to return a stub.
Replayers == {"Replayer", "StubbedReplayer"}

\* The state after setup({cacheDir}) on the files fs, followed by
\* configure(new Replayer()).
Init ==
  /\ now = 0
  /\ online = FALSE
  /\ filePath = DefaultName
  /\ \E fs \in [Scopes -> {MissingFile, CorruptFile}] :
       /\ map = Load(EmptyMap, fs, DefaultName, 0).map
       /\ files = Load(EmptyMap, fs, DefaultName, 0).files
  /\ calls = [c \in Calls |-> IdleCall]
  /\ netCalls = 0
  /\ lastOp = Op("init", "none", NoKey, Undefined, FALSE)
  /\ globalFetch = "Replayer"
  /\ originalFetch = NativeFetch
  /\ probes = <<>>
  /\ lostWrites = {}

\* --------------------------------------------------- the store's operations

\* rereplayCache.set(k, v), metadata defaulting to {}.
Set(k, v) ==
  /\ map' = SetMap(map, k, v, <<>>, now)
  /\ files' = Save(map', files, filePath)
  /\ lastOp' = Op("set", "none", k, Undefined, TRUE)
  /\ UNCHANGED <<globalFetch, originalFetch, probes, lostWrites, now, online, filePath, calls, netCalls>>

\* rereplayCache.get(k)
Get(k) ==
  /\ map' = GetMap(map, k, now)
  /\ lastOp' = Op("get", "none", k, GetValue(map, k, now), map' # map)
  /\ UNCHANGED <<globalFetch, originalFetch, probes, lostWrites, now, online, filePath, files, calls, netCalls>>

\* rereplayCache.delete(k): saves when the key was there.
Delete(k) ==
  /\ map' = [map EXCEPT ![k] = NoEntry]
  /\ files' = IF map[k].present THEN Save(map', files, filePath) ELSE files
  /\ lastOp' = Op("delete", "none", k, Undefined, map[k].present)
  /\ UNCHANGED <<globalFetch, originalFetch, probes, lostWrites, now, online, filePath, calls, netCalls>>

\* rereplayCache.clear()
Clear ==
  /\ map' = EmptyMap
  /\ files' = Save(map', files, filePath)
  /\ lastOp' = Op("clear", "none", NoKey, Undefined, map' # map)
  /\ UNCHANGED <<globalFetch, originalFetch, probes, lostWrites, now, online, filePath, calls, netCalls>>

\* rereplayCache.setCacheFile(scope)
SetCacheFile(scope) ==
  /\ filePath' = scope
  /\ map' = Load(map, files, scope, now).map
  /\ files' = Load(map, files, scope, now).files
  /\ lastOp' = LoadOp("setCacheFile", files[scope].state)
  /\ UNCHANGED <<globalFetch, originalFetch, probes, lostWrites, now, online, calls, netCalls>>

\* setup({name, cacheDir}): rereplayCache becomes a new PersistentMap, whose
\* constructor starts from an empty map and loads.
Setup(name) ==
  /\ filePath' = name
  /\ map' = Load(EmptyMap, files, name, now).map
  /\ files' = Load(EmptyMap, files, name, now).files
  /\ lastOp' = LoadOp("setup", files[name].state)
  /\ UNCHANGED <<globalFetch, originalFetch, probes, lostWrites, now, online, calls, netCalls>>

\* Time passes.
Tick ==
  /\ now < MaxTime
  /\ now' = now + 1
  /\ lastOp' = Op("tick", "none", NoKey, Undefined, FALSE)
  /\ UNCHANGED <<globalFetch, originalFetch, probes, lostWrites, online, filePath, map, files, calls, netCalls>>

\* The environment sets or unsets REREPLAY_ONLINE.
ToggleOnline ==
  /\ online' = ~online
  /\ lastOp' = Op("env", "none", NoKey, Undefined, online')
  /\ UNCHANGED <<globalFetch, originalFetch, probes, lostWrites, now, filePath, map, files, calls, netCalls>>

\* ----------------------------------------------------------- Replayer.fetch

InFlight(c) == calls[c].pc # "idle"

\* FetchStart, as if the bypass signal were not read: always the replay path.
FetchStart_IgnoresSignal(c, r) ==
  /\ globalFetch = "Replayer"
  /\ ~InFlight(c)
  /\ calls' = [calls EXCEPT ![c] =
        IF Fingerprint[r].ok
        THEN [IdleCall EXCEPT !.pc = "keyed", !.init = Fingerprint[r].init,
                              !.key = Fingerprint[r].key,
                              !.requestString = Fingerprint[r].requestString]
        ELSE IdleCall]
  /\ lastOp' = [(IF Fingerprint[r].ok
                 THEN FetchOp("fetch", c, Fingerprint[r].key, FALSE, NoResult)
                 ELSE FetchOp("invalid", c, NoKey, FALSE, Thrown("InvalidDataToHash")))
                  EXCEPT !.input = r]
  /\ UNCHANGED <<globalFetch, originalFetch, probes, lostWrites, now, online, filePath, map, files, netCalls>>

\* A call of globalThis.fetch while it is the default replayer's fetch:
\* Replayer.fetch, to its first await.  The bypass signal is read; when it is
\* set, originalFetch(input, init) is invoked; otherwise requestToKey runs,
\* which throws on an unstable canonical string and edits init.headers.
\* (originalFetch is the runtime's fetch wherever this is called: configure
\* captured it before the replayer was installed.)
FetchStart(c, r) ==
  /\ globalFetch = "Replayer"
  /\ ~InFlight(c)
  /\ IF online
     THEN /\ netCalls < MaxNetCalls
          /\ netCalls' = netCalls + 1
          /\ calls' = [calls EXCEPT ![c] = [IdleCall EXCEPT !.pc = "bypass", !.init = r]]
          /\ lastOp' = [FetchOp("fetch", c, NoKey, TRUE, NoResult) EXCEPT !.input = r]
     ELSE /\ calls' = [calls EXCEPT ![c] =
                IF Fingerprint[r].ok
                THEN [IdleCall EXCEPT !.pc = "keyed", !.init = Fingerprint[r].init,
                                      !.key = Fingerprint[r].key,
                                      !.requestString = Fingerprint[r].requestString]
                ELSE IdleCall]
          /\ lastOp' = [(IF Fingerprint[r].ok
                         THEN FetchOp("fetch", c, Fingerprint[r].key, FALSE, NoResult)
                         ELSE FetchOp("invalid", c, NoKey, FALSE,
                                      Thrown("InvalidDataToHash")))
                          EXCEPT !.input = r]
          /\ UNCHANGED netCalls
  /\ UNCHANGED <<globalFetch, originalFetch, probes, lostWrites, now, online, filePath, map, files>>

\* FetchCheck, as if an entry that fails to parse were removed from the map.
FetchCheck_Heals(c) ==
  /\ calls[c].pc = "keyed"
  /\ LET k == calls[c].key IN
     IF ~Has(map, k)
     THEN /\ netCalls < MaxNetCalls
          /\ netCalls' = netCalls + 1
          /\ calls' = [calls EXCEPT ![c].pc = "fetching", ![c].scope = filePath]
          /\ lastOp' = FetchOp("miss", c, k, FALSE, NoResult)
          /\ UNCHANGED map
     ELSE /\ map' = IF DeserializeResponse(GetValue(map, k, now)).kind = "error"
                    THEN [map EXCEPT ![k] = NoEntry]
                    ELSE GetMap(map, k, now)
          /\ calls' = [calls EXCEPT ![c] = IdleCall]
          /\ lastOp' = FetchOp("hit", c, k, FALSE,
                               DeserializeResponse(GetValue(map, k, now)))
          /\ UNCHANGED netCalls
  /\ UNCHANGED <<globalFetch, originalFetch, probes, lostWrites, now, online, filePath, files>>

\* After requestToKey: `if (!rereplayCache.has(key))` invokes
\* originalFetch(input, init); otherwise the call returns
\* deserializeResponse(rereplayCache.get(key)!).
FetchCheck(c) ==
  /\ calls[c].pc = "keyed"
  /\ LET k == calls[c].key IN
     IF ~Has(map, k)
     THEN /\ netCalls < MaxNetCalls
          /\ netCalls' = netCalls + 1
          /\ calls' = [calls EXCEPT ![c].pc = "fetching", ![c].scope = filePath]
          /\ lastOp' = FetchOp("miss", c, k, FALSE, NoResult)
          /\ UNCHANGED map
     ELSE /\ map' = GetMap(map, k, now)
          /\ calls' = [calls EXCEPT ![c] = IdleCall]
          /\ lastOp' = FetchOp("hit", c, k, FALSE,
                               DeserializeResponse(GetValue(map, k, now)))
          /\ UNCHANGED netCalls
  /\ UNCHANGED <<globalFetch, originalFetch, probes, lostWrites, now, online, filePath, files>>

\* originalFetch resolves.  In bypass mode its response is what fetch returns;
\* on a miss, serializeResponse reads it.
NetworkResolves(c, resp) ==
  /\ calls[c].pc \in {"bypass", "fetching"}
  /\ calls' = [calls EXCEPT ![c] =
        IF calls[c].pc = "bypass"
        THEN IdleCall
        ELSE [@ EXCEPT !.pc = "serialized", !.init = NoInit,
                       !.serializedResponse = SerializeResponse(resp)]]
  /\ lastOp' = IF calls[c].pc = "bypass"
               THEN FetchOp("resolve", c, NoKey, TRUE, Returned(resp))
               ELSE FetchOp("resolve", c, calls[c].key, FALSE, NoResult)
  /\ UNCHANGED <<globalFetch, originalFetch, probes, lostWrites, now, online, filePath, map, files, netCalls>>

\* NetworkRejects, as if the rejection of a miss were recorded under the key.
NetworkRejects_Caches(c) ==
  /\ calls[c].pc \in {"bypass", "fetching"}
  /\ calls' = [calls EXCEPT ![c] = IdleCall]
  /\ map' = IF calls[c].pc = "fetching"
            THEN SetMap(map, calls[c].key, Malformed, calls[c].requestString, now)
            ELSE map
  /\ files' = IF calls[c].pc = "fetching" THEN Save(map', files, filePath) ELSE files
  /\ lastOp' = FetchOp("reject", c, calls[c].key, calls[c].pc = "bypass",
                       Thrown("NetworkFailure"))
  /\ UNCHANGED <<globalFetch, originalFetch, probes, lostWrites, now, online, filePath, netCalls>>

\* originalFetch rejects: the await throws out of fetch.
NetworkRejects(c) ==
  /\ calls[c].pc \in {"bypass", "fetching"}
  /\ calls' = [calls EXCEPT ![c] = IdleCall]
  /\ lastOp' = FetchOp("reject", c, calls[c].key, calls[c].pc = "bypass",
                       Thrown("NetworkFailure"))
  /\ UNCHANGED <<globalFetch, originalFetch, probes, lostWrites, now, online, filePath, map, files, netCalls>>

\* History: the write that caller c makes into the map m, when the active
\* scope is no longer the one in which c found no entry.
Misdirected(c, m) ==
  IF calls[c].scope = filePath
  THEN {}
  ELSE {[scope |-> calls[c].scope, key |-> calls[c].key,
         entry |-> ToJSON(m[calls[c].key])]}

\* FetchRecord, as if the set were skipped.
FetchRecord_NoSet(c) ==
  /\ calls[c].pc = "serialized"
  /\ calls' = [calls EXCEPT ![c] = IdleCall]
  /\ lastOp' = FetchOp("record", c, calls[c].key, FALSE,
                       DeserializeResponse(calls[c].serializedResponse))
  /\ UNCHANGED <<globalFetch, originalFetch, probes, lostWrites, now, online, filePath, map, files, netCalls>>

\* FetchRecord, as if the call returned the response the network gave it.
FetchRecord_ReturnsLive(c) ==
  /\ calls[c].pc = "serialized"
  /\ map' = SetMap(map, calls[c].key, calls[c].serializedResponse,
                   calls[c].requestString, now)
  /\ files' = Save(map', files, filePath)
  /\ calls' = [calls EXCEPT ![c] = IdleCall]
  /\ lastOp' = FetchOp("record", c, calls[c].key, FALSE,
        Returned([DeserializeResponse(calls[c].serializedResponse).response
                    EXCEPT !.url = calls[c].requestString[1]]))
  /\ lostWrites' = IF lostWrites = {} THEN Misdirected(c, map') ELSE lostWrites
  /\ UNCHANGED <<globalFetch, originalFetch, probes, now, online, filePath, netCalls>>

\* FetchRecord, as if an entry already recorded under the key were kept.
FetchRecord_KeepsFirst(c) ==
  /\ calls[c].pc = "serialized"
  /\ map' = IF Has(map, calls[c].key)
            THEN map
            ELSE SetMap(map, calls[c].key, calls[c].serializedResponse,
                        calls[c].requestString, now)
  /\ files' = Save(map', files, filePath)
  /\ calls' = [calls EXCEPT ![c] = IdleCall]
  /\ lastOp' = FetchOp("record", c, calls[c].key, FALSE,
                       DeserializeResponse(calls[c].serializedResponse))
  /\ lostWrites' = IF lostWrites = {} THEN Misdirected(c, map') ELSE lostWrites
  /\ UNCHANGED <<globalFetch, originalFetch, probes, now, online, filePath, netCalls>>

\* After serializeResponse: rereplayCache.set(key, serializedResponse,
\* {requestString}), and the call returns deserializeResponse(serializedResponse).
FetchRecord(c) ==
  /\ calls[c].pc = "serialized"
  /\ map' = SetMap(map, calls[c].key, calls[c].serializedResponse,
                   calls[c].requestString, now)
  /\ files' = Save(map', files, filePath)
  /\ calls' = [calls EXCEPT ![c] = IdleCall]
  /\ lastOp' = FetchOp("record", c, calls[c].key, FALSE,
                       DeserializeResponse(calls[c].serializedResponse))
  /\ lostWrites' = IF lostWrites = {} THEN Misdirected(c, map') ELSE lostWrites
  /\ UNCHANGED <<globalFetch, originalFetch, probes, now, online, filePath, netCalls>>

\* `new Response("Yo")`
StubResponse ==
  [status |-> 200, statusText |-> "",
   headers |-> <<Hdr("content-type", "text/plain;charset=UTF-8")>>, body |-> "Yo",
   chunks |-> <<>>, bodyKind |-> "text", url |-> ""]

\* StubbedFetch, as if the override were missing and Replayer.fetch ran.
StubbedFetch_Inherited(c, r) ==
  /\ globalFetch = "StubbedReplayer"
  /\ ~InFlight(c)
  /\ Fingerprint[r].ok
  /\ calls' = [calls EXCEPT ![c] =
        [IdleCall EXCEPT !.pc = "keyed", !.init = Fingerprint[r].init,
                         !.key = Fingerprint[r].key,
                         !.requestString = Fingerprint[r].requestString]]
  /\ lastOp' = [FetchOp("fetch", c, Fingerprint[r].key, FALSE, NoResult)
                  EXCEPT !.input = r]
  /\ UNCHANGED <<globalFetch, originalFetch, probes, lostWrites, now, online, filePath, map, files,
                 netCalls>>

\* A call of globalThis.fetch while it is the fetch of a StubbedReplayer: the
\* override returns a new Response and does nothing else.
StubbedFetch(c, r) ==
  /\ globalFetch = "StubbedReplayer"
  /\ ~InFlight(c)
  /\ lastOp' = [FetchOp("stub", c, NoKey, online, Returned(StubResponse))
                  EXCEPT !.input = r]
  /\ UNCHANGED <<globalFetch, originalFetch, probes, lostWrites, now, online, filePath, map, files,
                 calls, netCalls>>

\* configure(replayer), of the object setup returned: originalFetch is taken
\* from globalThis.fetch while it is undefined, and the replayer's fetch is
\* installed.
Configure(replayer) ==
  /\ originalFetch' = IF originalFetch = UndefinedFetch THEN globalFetch
                      ELSE originalFetch
  /\ globalFetch' = replayer
  /\ lastOp' = Op("configure", "none", NoKey, Undefined, originalFetch' # originalFetch)
  /\ UNCHANGED <<probes, lostWrites, now, online, filePath, map, files, calls, netCalls>>

\* restore(), of the object setup returned.
Restore ==
  /\ globalFetch' = originalFetch
  /\ lastOp' = Op("restore", "none", NoKey, Undefined, globalFetch' # globalFetch)
  /\ UNCHANGED <<originalFetch, probes, lostWrites, now, online, filePath, map, files, calls,
                 netCalls>>

\* The Uint8Arrays a streamed body is read as: an empty one, one byte, two.
ChunkPool == {<<>>, <<104>>, <<104, 105>>}

\* The bodies of event streams: up to MaxChunks chunks.
ChunkLists == UNION {[1..n -> ChunkPool] : n \in 0..MaxChunks}

\* The status lines of the responses given to the codec.
StatusLines == {<<200, "OK">>, <<404, "Not Found">>}

\* The responses given to the codec: plain text, JSON, a file with and without
\* a content type, and event streams.
CodecResponses ==
  LET Resp(sl, hs, kind, body, chunks) ==
        [status |-> sl[1], statusText |-> sl[2], headers |-> hs, body |-> body,
         chunks |-> chunks, bodyKind |-> kind, url |-> "https://example.test/joke"]
  IN UNION {
       {Resp(sl, <<Hdr("content-type", "text/plain")>>, "text", b, <<>>) :
          b \in {"", "X"}}
       \cup {Resp(sl, <<Hdr("content-type", "application/json")>>, "text",
                  "{\"joke\":1}", <<>>)}
       \cup {Resp(sl, <<Hdr("content-type", "image/png")>>, "blob", b, <<>>) :
               b \in {"", "PNG"}}
       \cup {Resp(sl, <<>>, "blob", "raw", <<>>)}
       \cup {Resp(sl, <<Hdr("content-type", "text/event-stream")>>, "stream", "", cs) :
               cs \in ChunkLists}
       : sl \in StatusLines }

\* `replayer.deserializeResponse(await replayer.serializeResponse(response))`,
\* called by a test: the response given, the string and the response made.
RoundTrip(resp) ==
  /\ lastOp' = [Op("roundTrip", "none", NoKey, SerializeResponse(resp), FALSE)
                  EXCEPT !.result = DeserializeResponse(SerializeResponse(resp)),
                         !.response = resp]
  /\ UNCHANGED <<globalFetch, originalFetch, probes, lostWrites, now, online, filePath, map, files,
                 calls, netCalls>>

\* `await replayer.requestToKey(input, init)`, called by a test: what it was
\* given and what it returned (or that it threw), with init as it left it.
RequestToKeyCall(r) ==
  /\ Len(probes) < MaxProbes
  /\ probes' = Append(probes, [input |-> r, out |-> RequestToKey(r)])
  /\ lastOp' = Op("requestToKey", "none", RequestToKey(r).key, Undefined,
                  RequestToKey(r).ok)
  /\ UNCHANGED <<lostWrites, now, online, filePath, map, files, calls, netCalls,
                 globalFetch, originalFetch>>

\* ------------------------------------------------------- the specification

\* The intercepted fetch with its concurrent callers, the clock, the bypass
\* signal, and a test that deletes entries meanwhile.
Next ==
  \/ \E c \in Calls, r \in Requests : FetchStart(c, r)
  \/ \E c \in Calls : FetchCheck(c)
  \/ \E c \in Calls : \E resp \in NetworkResponses(calls[c].init) :
       NetworkResolves(c, resp)
  \/ \E c \in Calls : NetworkRejects(c)
  \/ \E c \in Calls : FetchRecord(c)
  \/ \E k \in Keys : Delete(k)
  \/ Tick
  \/ ToggleOnline

Spec == Init /\ [][Next]_vars

\* The intercepted fetch in replay mode, with a test that rescopes and clears
\* the store meanwhile (as the "scoped cache" test does).
NextScoped ==
  \/ \E c \in Calls, r \in Requests : FetchStart(c, r)
  \/ \E c \in Calls : FetchCheck(c)
  \/ \E c \in Calls : \E resp \in NetworkResponses(calls[c].init) :
       NetworkResolves(c, resp)
  \/ \E c \in Calls : NetworkRejects(c)
  \/ \E c \in Calls : FetchRecord(c)
  \/ \E s \in Scopes : SetCacheFile(s)
  \/ Clear

SpecScoped == Init /\ [][NextScoped]_vars

\* The store alone, driven by its callers.
NextStore ==
  \/ \E k \in Keys, v \in DirectValues : Set(k, v)
  \/ \E k \in Keys : Get(k)
  \/ \E k \in Keys : Delete(k)
  \/ Clear
  \/ \E s \in Scopes : SetCacheFile(s)
  \/ \E n \in Scopes : Setup(n)
  \/ Tick

SpecStore == Init /\ [][NextStore]_vars

\* Tests that configure the default or the stubbed replayer, restore, and call
\* fetch meanwhile (as the "custom replayer" test does).
NextStub ==
  \/ \E replayer \in Replayers : Configure(replayer)
  \/ Restore
  \/ \E c \in Calls, r \in Requests : StubbedFetch(c, r)
  \/ \E c \in Calls, r \in Requests : FetchStart(c, r)
  \/ \E c \in Calls : FetchCheck(c)
  \/ \E c \in Calls : \E resp \in NetworkResponses(calls[c].init) :
       NetworkResolves(c, resp)
  \/ \E c \in Calls : NetworkRejects(c)
  \/ \E c \in Calls : FetchRecord(c)
  \/ ToggleOnline

SpecStub == Init /\ [][NextStub]_vars

\* The state after the first setup({cacheDir}) of a process: nothing is
\* installed yet, and the module's originalFetch has never been assigned.
InitSetup ==
  /\ now = 0
  /\ online = FALSE
  /\ filePath = DefaultName
  /\ \E fs \in [Scopes -> {MissingFile, CorruptFile}] :
       /\ map = Load(EmptyMap, fs, DefaultName, 0).map
       /\ files = Load(EmptyMap, fs, DefaultName, 0).files
       /\ lastOp = LoadOp("setup", fs[DefaultName].state)
  /\ calls = [c \in Calls |-> IdleCall]
  /\ netCalls = 0
  /\ globalFetch = NativeFetch
  /\ originalFetch = UndefinedFetch
  /\ probes = <<>>
  /\ lostWrites = {}

\* A test file's calls of setup, and of the configure and restore it returns,
\* in any order.
NextLifecycle ==
  \/ \E n \in Scopes : Setup(n)
  \/ \E replayer \in Replayers : Configure(replayer)
  \/ Restore

SpecLifecycle == InitSetup /\ [][NextLifecycle]_vars

\* The intercepted fetch in replay mode, with a test that sets and deletes
\* entries of the store directly meanwhile, and the clock.
NextDirect ==
  \/ \E c \in Calls, r \in Requests : FetchStart(c, r)
  \/ \E c \in Calls : FetchCheck(c)
  \/ \E c \in Calls : \E resp \in NetworkResponses(calls[c].init) :
       NetworkResolves(c, resp)
  \/ \E c \in Calls : NetworkRejects(c)
  \/ \E c \in Calls : FetchRecord(c)
  \/ \E k \in Keys : Set(k, Malformed)
  \/ \E k \in Keys : Delete(k)
  \/ Tick

SpecDirect == Init /\ [][NextDirect]_vars

\* A test that takes responses through the codec, one after the other.
NextCodec == \E resp \in CodecResponses : RoundTrip(resp)

SpecCodec == Init /\ [][NextCodec]_vars

\* A test that takes the fingerprints of requests, one after the other.
NextKey == \E r \in KeyRequests : RequestToKeyCall(r)

SpecKey == Init /\ [][NextKey]_vars

\* ------------------------------------------------------------------ claims

\* An entry's age does not exceed staleAfter at time t.
Fresh(e, t) == e.present /\ t - e.createdAt <= StaleAfter

\* The step is caller c's `if (!rereplayCache.has(key))`.
CheckStep(c) == calls[c].pc = "keyed" /\ calls'[c].pc # "keyed"

\* The step is caller c entering Replayer.fetch.
StartStep(c) == calls[c].pc = "idle" /\ lastOp'.call = c /\ lastOp'.op \in {"fetch", "invalid"}

StoreUnchanged == map' = map /\ files' = files /\ filePath' = filePath

\* C1: in replay mode the real network function is invoked only by an
\* intercept that finds no entry for its key, and then once; an intercept that
\* finds an entry which is not expired invokes nothing, leaves the store as it
\* is and returns the deserialized recorded response.  No entry exists before
\* the real network function has been invoked.
C1_ReplayInvokesNetworkOnce ==
  /\ []((\E k \in Keys : Has(map, k)) => netCalls >= 1)
  /\ [][/\ \A c \in Calls : CheckStep(c) =>
             LET k == calls[c].key IN
             /\ ~map[k].present =>
                  netCalls' = netCalls + 1 /\ calls'[c].pc = "fetching"
             /\ Fresh(map[k], now) =>
                  /\ netCalls' = netCalls
                  /\ StoreUnchanged
                  /\ lastOp'.result = Returned(DeserializeResponse(map[k].value).response)
                  /\ calls'[c].pc = "idle"
        /\ netCalls' # netCalls =>
             /\ netCalls' = netCalls + 1
             /\ \E c \in Calls :
                  \/ CheckStep(c) /\ ~map[calls[c].key].present
                  \/ StartStep(c) /\ online]_vars

\* C1's case: a later call returned the recorded response, and the real
\* network function has been invoked once in all.
C1_Witness ==
  /\ lastOp.op = "hit"
  /\ lastOp.result.kind = "response"
  /\ netCalls = 1
  /\ Has(map, lastOp.key)

\* C2: when the intercept that missed completes, the active store has an
\* entry under the request's fingerprint key, whose value is the serialized
\* response and whose metadata is the request's canonical string; the backing
\* file of the active scope has it too.
C2_MissIsRecorded ==
  lastOp.op = "record" =>
    LET k == lastOp.key
        e == map[k]
    IN /\ Has(map, k)
       /\ e.value.tag = "serialized"
       /\ lastOp.result = DeserializeResponse(e.value)
       /\ e.createdAt = now
       /\ \E r \in Requests :
            /\ RequestToKey(r).ok
            /\ RequestToKey(r).key = k
            /\ e.metadata = RequestToKey(r).requestString
       /\ files[filePath].state = "valid"
       /\ files[filePath].entries[k] = ToJSON(e)

\* C2's case: an intercept has recorded its response after the store was
\* rescoped.
C2_Witness ==
  /\ lastOp.op = "record"
  /\ filePath = "scoped-cache"
  /\ Has(map, lastOp.key)
  /\ map[lastOp.key].metadata # <<>>

\* C3: the recording call returns the deserialization of the string it has
\* just stored (a Response made anew, not the one the network returned), and
\* a hit whose entry stays in the store returns the deserialization of that
\* entry's string.
C3_ReturnsDeserializedCopy ==
  /\ lastOp.op = "record" =>
       /\ lastOp.result.kind = "response"
       /\ lastOp.result = DeserializeResponse(map[lastOp.key].value)
       /\ lastOp.result.response.url = ""
  /\ (lastOp.op = "hit" /\ Has(map, lastOp.key)) =>
       lastOp.result = DeserializeResponse(map[lastOp.key].value)

\* C3's case: a hit returned a response for an entry recorded earlier.
C3_Witness ==
  /\ lastOp.op = "hit"
  /\ Has(map, lastOp.key)
  /\ lastOp.result.kind = "response"
  /\ lastOp.result.response.body = "X"

\* C4: the bypass signal is read when a call begins: when it is set the call
\* invokes the real network function once, at once, and never touches the
\* store, and what the network answers (or its rejection) is what the call
\* returns; when it is unset the call does not go straight to the network.
C4_BypassLeavesStore ==
  [][\A c \in Calls :
       /\ StartStep(c) =>
            IF online
            THEN calls'[c].pc = "bypass" /\ netCalls' = netCalls + 1 /\ StoreUnchanged
            ELSE calls'[c].pc # "bypass" /\ netCalls' = netCalls
       /\ (calls[c].pc = "bypass" /\ calls'[c] # calls[c]) =>
            /\ StoreUnchanged
            /\ netCalls' = netCalls
            /\ calls'[c] = IdleCall
            /\ \/ lastOp'.result = Thrown("NetworkFailure")
               \/ /\ lastOp'.result.kind = "response"
                  /\ lastOp'.result.response \in NetworkResponses(calls[c].init)]_vars

\* C4's case: two calls went straight to the network and the store, map and
\* files, is still empty.
C4_Witness ==
  /\ lastOp.op = "resolve"
  /\ lastOp.flag
  /\ netCalls = 2
  /\ map = EmptyMap
  /\ \A s \in Scopes : files[s].state # "valid"
  /\ \A c \in Calls : calls[c].pc = "idle"

\* C5: when the real network call of a miss rejects, the caller gets the
\* rejection, the map and the files stay as they are, and the network function
\* is not invoked again by that call; an intercept that then finds no entry
\* invokes the real network function.
C5_RejectionNotCached ==
  [][\A c \in Calls :
       /\ (calls[c].pc = "fetching" /\ lastOp'.op = "reject" /\ lastOp'.call = c) =>
            /\ lastOp'.result = Thrown("NetworkFailure")
            /\ StoreUnchanged
            /\ netCalls' = netCalls
            /\ calls'[c] = IdleCall
       /\ (calls[c].pc = "fetching" /\ calls'[c].pc = "serialized") =>
            lastOp'.op = "resolve"
       /\ (CheckStep(c) /\ ~Has(map, calls[c].key)) =>
            netCalls' = netCalls + 1 /\ calls'[c].pc = "fetching"]_vars

\* C5's case: the network call of a miss was rejected, and the key has no
\* entry.
C5_Witness ==
  /\ lastOp.op = "reject"
  /\ ~lastOp.flag
  /\ lastOp.key \in Keys
  /\ ~Has(map, lastOp.key)
  /\ netCalls = 1

\* The file at the store's filePath holds exactly the map's key/entry pairs.
FileMirrorsMap == files[filePath] = ValidFile(map)

\* C6: after set(k, v) get(k) returns v; after setCacheFile onto a scope whose
\* file has no entry for k (or does not exist) has(k) is false and get(k)
\* returns absent; after setCacheFile onto a scope whose file has an entry for
\* k, get(k) returns that entry's value.
C6_RescopingIsolation ==
  /\ lastOp.op = "set" => GetValue(map, lastOp.key, now) = map[lastOp.key].value
  /\ (lastOp.op = "setCacheFile" /\ lastOp.file \in {"missing", "valid"}) =>
       \A k \in Keys :
         IF files[filePath].state = "valid" /\ files[filePath].entries[k].present
         THEN GetValue(map, k, now) = files[filePath].entries[k].value
         ELSE ~Has(map, k) /\ GetValue(map, k, now) = Undefined

\* C7: set leaves the entry in the file of the active scope, and a store
\* constructed on a file that parses holds every entry of the file: has is
\* true and, while the entry's age does not exceed staleAfter, get returns
\* the value written.
C7_DurableRecording ==
  /\ lastOp.op = "set" =>
       /\ files[filePath].state = "valid"
       /\ files[filePath].entries[lastOp.key] = ToJSON(map[lastOp.key])
       /\ map[lastOp.key].value \in DirectValues
  /\ (lastOp.op = "setup" /\ lastOp.file = "valid") =>
       \A k \in Keys :
         files[filePath].entries[k].present =>
           /\ Has(map, k)
           /\ map[k].metadata = files[filePath].entries[k].metadata
           /\ Fresh(files[filePath].entries[k], now) =>
                GetValue(map, k, now) = files[filePath].entries[k].value

\* C7's case: a new store instance holds an entry that was written at an
\* earlier time.
C7_Witness ==
  /\ lastOp.op = "setup"
  /\ \E k \in Keys :
       /\ Has(map, k)
       /\ map[k].createdAt < now
       /\ Fresh(map[k], now)
       /\ GetValue(map, k, now) = map[k].value

\* C8: after set, after clear, after a delete that removed an entry and after
\* a get that evicted one, the file of the current scope holds exactly the
\* map's key/entry pairs.
C8_FileMirrorsMapAfterMutation ==
  (\/ lastOp.op \in {"set", "clear"}
   \/ lastOp.op \in {"delete", "get"} /\ lastOp.flag) => FileMirrorsMap

\* C9: get(k) on an entry created at t0 returns the value while t - t0 <=
\* staleAfter and leaves the entry; when t - t0 > staleAfter it returns absent
\* and removes the entry; for an entry made by set in memory as for one that
\* load read from the file.
C9_GetExpiresByAge ==
  [][lastOp'.op = "get" =>
       LET k == lastOp'.key IN
       map[k].present =>
         IF now - map[k].createdAt <= StaleAfter
         THEN lastOp'.ret = map[k].value /\ map'[k] = map[k]
         ELSE lastOp'.ret = Undefined /\ ~map'[k].present]_vars

\* C10: after the store is constructed or rescoped onto a file that parses,
\* no entry whose createdAt is earlier than now - staleAfter is in the map.
C10_LoadPrunesStale ==
  (lastOp.op \in {"setup", "setCacheFile"} /\ lastOp.file = "valid") =>
    \A k \in Keys : Has(map, k) => ~(map[k].createdAt < now - StaleAfter)

\* C11: has(k) never looks at an entry's age: for an entry whose age exceeds
\* staleAfter has(k) is true, the next get(k) returns absent and removes the
\* entry, and has(k) is false afterwards.
C11_HasGetAsymmetry ==
  [][lastOp'.op = "get" =>
       LET k == lastOp'.key IN
       (map[k].present /\ now - map[k].createdAt > StaleAfter) =>
         /\ Has(map, k)
         /\ lastOp'.ret = Undefined
         /\ ~Has(map', k)]_vars

\* C12: when load (in the constructor or in setCacheFile) finds a file that
\* does not parse, the file is deleted and the store goes on with an empty
\* map, whatever the map held before.
C12_CorruptFileRecovery ==
  (lastOp.op \in {"setup", "setCacheFile"} /\ lastOp.file = "corrupt") =>
    /\ files[filePath].state = "missing"
    /\ map = EmptyMap

\* The callers other than c that are past a miss on c's key and have not yet
\* written.
MissingWith(c) ==
  {d \in Calls \ {c} : calls[d].key = calls[c].key
                         /\ calls[d].pc \in {"fetching", "serialized"}}

\* C13: an intercept that finds no entry while another intercept with the
\* same key is between its miss and its write makes a network call of its
\* own; each write puts the writer's serialized response under the key,
\* replacing what an earlier writer put there, leaves the other keys alone,
\* and the backing file holds exactly the map.
C13_ConcurrentMissesLastWriteWins ==
  [][\A c \in Calls :
       LET k == calls[c].key IN
       /\ (CheckStep(c) /\ ~Has(map, k) /\ MissingWith(c) # {}) =>
            netCalls' = netCalls + 1 /\ calls'[c].pc = "fetching"
       /\ (calls[c].pc = "serialized" /\ calls'[c].pc = "idle") =>
            /\ map'[k] = Entry(calls[c].serializedResponse, now, calls[c].requestString)
            /\ \A j \in Keys \ {k} : map'[j] = map[j]
            /\ files'[filePath'] = ValidFile(map')
            /\ \A d \in Calls \ {c} : calls'[d] = calls[d]]_vars

\* C13's case: both callers missed on the same key and made their network
\* calls; one has written its response, and the other is about to write a
\* different one.
C13_Witness ==
  /\ lastOp.op = "record"
  /\ netCalls = 2
  /\ \E c \in Calls :
       /\ c # lastOp.call
       /\ calls[c].pc = "serialized"
       /\ calls[c].key = lastOp.key
       /\ Has(map, lastOp.key)
       /\ calls[c].serializedResponse # map[lastOp.key].value

\* A header name in lower case: HTTP header names are compared without regard
\* to letter case.
LowerName(n) ==
  CASE n = "Authorization" -> "authorization"
    [] n = "Content-Type" -> "content-type"
    [] OTHER -> n

IsAuthorization(h) == LowerName(h[1]) = "authorization"

NotAuthorization(h) == ~IsAuthorization(h)

\* The values a request's authorization headers carry.
AuthorizationValues(r) ==
  {r.headers[i][2] : i \in {j \in 1..Len(r.headers) : IsAuthorization(r.headers[j])}}

\* The header values written in a canonical string.
HeaderValuesIn(requestString) ==
  {requestString[3][i][2] : i \in 1..Len(requestString[3])}

\* Two requests differ at most in their authorization header.
DifferOnlyInAuthorization(a, b) ==
  /\ a.url = b.url
  /\ a.method = b.method
  /\ a.body = b.body
  /\ SelectSeq(a.headers, NotAuthorization) = SelectSeq(b.headers, NotAuthorization)

\* C14: two requests that differ only in the value or the presence of the
\* authorization header, in any letter case of its name, get the same key, and
\* the canonical string of a request holds none of its authorization values.
C14_AuthExclusion ==
  \A i, j \in 1..Len(probes) :
    LET a == probes[i]
        b == probes[j]
    IN /\ (DifferOnlyInAuthorization(a.input, b.input) /\ a.out.ok /\ b.out.ok) =>
            a.out.key = b.out.key
       /\ a.out.ok =>
            AuthorizationValues(a.input) \cap HeaderValuesIn(a.out.requestString) = {}

\* C15: requestToKey leaves the caller's init as it was given: init.headers
\* keeps its authorization entry and its content-type value.
C15_FingerprintingIsPure ==
  \A i \in 1..Len(probes) : probes[i].out.init = probes[i].input

\* The name/value pairs of a request's headers other than authorization.
NonAuthorizationPairs(r) ==
  {r.headers[i] : i \in {j \in 1..Len(r.headers) : NotAuthorization(r.headers[j])}}

\* The authorization headers of a request are all spelled in lower case.
PlainAuthorization(r) ==
  \A i \in 1..Len(r.headers) :
    IsAuthorization(r.headers[i]) => r.headers[i][1] = "authorization"

\* C16: two requests with the same URL, method, body and set of
\* non-authorization header pairs get the same key, in whatever order the
\* header mapping lists the pairs (stated for requests whose authorization
\* header, if any, is spelled in lower case; the other spellings are C14's).
C16_EquivalentRequestsSameKey ==
  \A i, j \in 1..Len(probes) :
    LET a == probes[i]
        b == probes[j]
    IN (/\ PlainAuthorization(a.input) /\ PlainAuthorization(b.input)
        /\ a.input.url = b.input.url
        /\ MethodOf(a.input) = MethodOf(b.input)
        /\ a.input.body = b.input.body
        /\ NonAuthorizationPairs(a.input) = NonAuthorizationPairs(b.input)
        /\ a.out.ok /\ b.out.ok) =>
         a.out.key = b.out.key

\* C17: two multipart requests that carry the same part and differ in the
\* boundary token, in the content-type parameter and in the body's delimiter
\* lines, get the same key.
C17_MultipartInvariance ==
  \A i, j \in 1..Len(probes) :
    \A b1, b2 \in Boundaries, n \in ContentTypeNames, p \in Parts :
      (/\ probes[i].input = MultipartRequest(b1, n, p)
       /\ probes[j].input = MultipartRequest(b2, n, p)) =>
        /\ probes[i].out.ok /\ probes[j].out.ok
        /\ probes[i].out.key = probes[j].out.key

\* A canonical string <<url, method, headers, body>> holds the label that the
\* default conversion of an object to a string produces.
HoldsPlaceholder(canonical) ==
  \/ \E i \in 1..Len(canonical[3]) : canonical[3][i][2] = "[object Object]"
  \/ \E i \in 1..Len(canonical[4]) : canonical[4][i].text = "[object Object]"

\* C18: a replay-mode intercept of a request whose canonical string holds the
\* object placeholder fails with the error of requestToKey, without a key,
\* without invoking the real network function and without changing the store;
\* an intercept of any other request gets a key and goes on.
C18_UnstableCanonicalizationIsFatal ==
  [][\A c \in Calls :
       (StartStep(c) /\ ~online) =>
         IF HoldsPlaceholder(DataToHash(lastOp'.input))
         THEN /\ lastOp'.op = "invalid"
              /\ lastOp'.key = NoKey
              /\ lastOp'.result = Thrown("InvalidDataToHash")
              /\ calls'[c] = IdleCall
              /\ netCalls' = netCalls
              /\ StoreUnchanged
         ELSE /\ lastOp'.op = "fetch"
              /\ lastOp'.key \in Keys
              /\ calls'[c].pc = "keyed"]_vars

\* C18's case: an intercept of a request with an unconverted body has failed
\* while the store held a recorded entry, which is still there.
C18_Witness ==
  /\ lastOp.op = "invalid"
  /\ HoldsPlaceholder(DataToHash(lastOp.input))
  /\ lastOp.result.kind = "error"
  /\ netCalls = 1
  /\ \E k \in Keys : Has(map, k)

\* C19: while the fetch of a StubbedReplayer is installed, a call of fetch
\* returns the stub response at once, invokes no real network function, and
\* leaves the map, the files and the in-flight calls as they are, so has(key)
\* is after the call what it was before.
C19_FullStubbing ==
  [][\A c \in Calls :
       (globalFetch = "StubbedReplayer" /\ calls[c].pc = "idle" /\ lastOp'.call = c) =>
         /\ lastOp'.op = "stub"
         /\ lastOp'.result = Returned(StubResponse)
         /\ netCalls' = netCalls
         /\ StoreUnchanged
         /\ \A k \in Keys : Has(map', k) = Has(map, k)
         /\ calls' = calls]_vars

\* C19's case: a stubbed call has returned, for a request that has a key, and
\* the store has no entry and the network was never invoked.
C19_Witness ==
  /\ lastOp.op = "stub"
  /\ globalFetch = "StubbedReplayer"
  /\ Fingerprint[lastOp.input].ok
  /\ ~Has(map, Fingerprint[lastOp.input].key)
  /\ map = EmptyMap
  /\ netCalls = 0

\* The text a response's text() gives (the empty string for a null body).
TextOf(resp) == IF resp.bodyKind = "none" THEN "" ELSE resp.body

\* The chunks a response's body yields when it is read (none for a null body).
ChunksOf(resp) == IF resp.bodyKind = "stream" THEN resp.chunks ELSE <<>>

\* C20: deserialize(serialize(r)) has r's status, statusText and headers; for
\* bodyType text, json and file its body content is r's, and for bodyType
\* stream reading its body yields r's chunks, in order.
C20_RoundTripFidelity ==
  lastOp.op = "roundTrip" =>
    LET r == lastOp.response
        s == lastOp.ret
        d == lastOp.result.response
    IN /\ lastOp.result.kind = "response"
       /\ d.status = r.status
       /\ d.statusText = r.statusText
       /\ d.headers = r.headers
       /\ s.bodyType \in {"text", "json", "file"} => TextOf(d) = TextOf(r)
       /\ s.bodyType = "file" => d.bodyKind = "blob"
       /\ s.bodyType = "stream" => ChunksOf(d) = ChunksOf(r)

\* The entry under k holds a string that is not a serialized response.
MalformedAt(k) == Has(map, k) /\ map[k].value = Malformed

\* The entry under k is one get() evicts at time t.
Expired(k, t) == Has(map, k) /\ CreatedBefore(map[k], t - StaleAfter)

RescopedRecord(c) ==
  calls[c].pc = "serialized" /\ calls'[c].pc = "idle" /\ calls[c].scope # filePath

\* The file of scope s, in the files fs, holds the entry e under k.
FileHolds(fs, s, k, e) == fs[s].state = "valid" /\ fs[s].entries[k] = e

\* C22: when setCacheFile(B) has run while an intercept that found no entry
\* under scope A was awaiting the network, the intercept's write puts the
\* recorded response into the map and into B's file and leaves A's file as it
\* is; and A's file never receives that entry afterwards, unless an intercept
\* for the same key records it while A is the active scope.
C22_RescopedWriteLost ==
  [][/\ \A c \in Calls :
         RescopedRecord(c) =>
           LET k == calls[c].key IN
           /\ Has(map', k)
           /\ map'[k].value = calls[c].serializedResponse
           /\ FileHolds(files', filePath, k, ToJSON(map'[k]))
           /\ files'[calls[c].scope] = files[calls[c].scope]
      /\ \A l \in lostWrites :
         (FileHolds(files', l.scope, l.key, l.entry)
            /\ ~FileHolds(files, l.scope, l.key, l.entry)) =>
           (lastOp'.op = "record" /\ lastOp'.key = l.key /\ filePath = l.scope)]_vars

\* C23: whenever an intercept takes the hit path, the value it hands to
\* deserializeResponse is the string stored under its key, never absent, and
\* the intercept completes with a response, also when the entry has aged past
\* staleAfter.
C23_HitNeverReadsAbsent ==
  [][\A c \in Calls :
       (CheckStep(c) /\ Has(map, calls[c].key)) =>
         /\ lastOp'.op = "hit"
         /\ GetValue(map, calls[c].key, now) = map[calls[c].key].value
         /\ GetValue(map, calls[c].key, now) # Undefined
         /\ lastOp'.result.kind = "response"]_vars

\* C24: the backing file of a scope gains an entry only by a set of that
\* entry's key made while the scope is the active one; no setCacheFile, set of
\* another key, delete or clear writes into a scope's file an entry that was
\* set under another scope.
C24_NoCrossScopeLeak ==
  [][\A s \in Scopes, k \in Keys :
       (/\ files'[s].state = "valid"
        /\ files'[s].entries[k].present
        /\ ~FileHolds(files, s, k, files'[s].entries[k])) =>
         (lastOp'.op = "set" /\ lastOp'.key = k /\ filePath' = s)]_vars

\* C25: after any sequence of setup, configure and restore calls that ends
\* with restore, globalThis.fetch is the runtime's own fetch: not a replayer's
\* intercept and not undefined, also when no configure came before the restore
\* and when configure was called several times with different replayers.
C25_RestoreReinstallsNative ==
  lastOp.op = "restore" => globalFetch = NativeFetch

====
